---------------------------- MODULE Spec2Model ----------------------------
(* A model of nau-s3-sync (src/src/main.go): one run of the sync job, from   *)
(* reading the environment to the process exit, over a small file system     *)
(* that holds /tmp/rclone-config and the credential file in it.              *)
EXTENDS Integers, Sequences, FiniteSets, TLC

VARIABLES
    env,          \* the process environment: a function on the variables that are set
    umask,        \* the process's file mode creation mask
    fs,           \* the file system: the config directory and the credential file
    fs0,          \* the file system as this run found it
    pc,           \* where main is
    config,       \* *Config returned by loadConfig
    err,          \* the error value in flight (Nil when none)
    level,        \* logger.Level, set by setupLogger
    logs,         \* the records the logrus logger emitted, in order
    stderr,       \* what main wrote to os.Stderr with fmt.Fprintf
    configFile,   \* runSync's configFile: "" until createRcloneConfig returned it
    args,         \* the argument list handed to exec.Command("rclone", ...)
    child,        \* the rclone child process: none, running, exited, startfail
    childCode,    \* the child's exit status once it exited
    childStarts,  \* how many times this run started a child process
    duration,     \* time.Since(start) around cmd.Run()
    exitCode,     \* the process's exit code, -1 while it runs
    runsLeft,     \* how many more times the schedule starts the job
    prev          \* what the previous run of the job showed to the outside

vars == <<env, umask, fs, fs0, pc, config, err, level, logs, stderr, configFile,
          args, child, childCode, childStarts, duration, exitCode, runsLeft, prev>>

-----------------------------------------------------------------------------
(* Bounds of the model.                                                      *)

\* How many consecutive runs of the job one behaviour holds.
MaxRuns == 2

\* The wall-clock durations a child process can take.
Durations == {1, 2}

\* The exit statuses of the rclone child process.
ChildExitCodes == {0, 1, 3}

-----------------------------------------------------------------------------
(* Strings. A Go string is a TLA+ string; where the code looks at the bytes  *)
(* of a string (strconv.Atoi, strings.ToLower) the model looks at Bytes(s).  *)

Range(s) == {s[i] : i \in DOMAIN s}

\* The bytes of the strings the environment can hold for the parsed variables.
BytesTable ==
    [s \in {"", "0", "3", "5", "50", "-5", "+7", "007", "1000", "abc", "5x", "-",
            "99999999999999999999",
            "debug", "info", "Warn", "warning", "error", "fatal", "panic", "trace",
            "verbose"} |->
        CASE s = ""      -> <<>>
          [] s = "0"     -> <<"0">>
          [] s = "3"     -> <<"3">>
          [] s = "5"     -> <<"5">>
          [] s = "50"    -> <<"5", "0">>
          [] s = "-5"    -> <<"-", "5">>
          [] s = "+7"    -> <<"+", "7">>
          [] s = "007"   -> <<"0", "0", "7">>
          [] s = "1000"  -> <<"1", "0", "0", "0">>
          [] s = "abc"   -> <<"a", "b", "c">>
          [] s = "5x"    -> <<"5", "x">>
          [] s = "-"     -> <<"-">>
          [] s = "99999999999999999999" -> [i \in 1..20 |-> "9"]
          [] s = "debug" -> <<"d", "e", "b", "u", "g">>
          [] s = "info"  -> <<"i", "n", "f", "o">>
          [] s = "Warn"  -> <<"W", "a", "r", "n">>
          [] s = "warning" -> <<"w", "a", "r", "n", "i", "n", "g">>
          [] s = "error" -> <<"e", "r", "r", "o", "r">>
          [] s = "fatal" -> <<"f", "a", "t", "a", "l">>
          [] s = "trace" -> <<"t", "r", "a", "c", "e">>
          [] s = "panic" -> <<"p", "a", "n", "i", "c">>
          [] s = "verbose" -> <<"v", "e", "r", "b", "o", "s", "e">>]

Bytes(s) == BytesTable[s]

Digits == <<"0", "1", "2", "3", "4", "5", "6", "7", "8", "9">>

IsDigit(c) == c \in Range(Digits)

DigitValue(c) == (CHOOSE i \in DOMAIN Digits : Digits[i] = c) - 1

\* The value of a sequence of decimal digits.
RECURSIVE DigitsValue(_)
DigitsValue(ds) ==
    IF ds = <<>> THEN 0
    ELSE DigitsValue(SubSeq(ds, 1, Len(ds) - 1)) * 10 + DigitValue(ds[Len(ds)])

RECURSIVE StripZeros(_)
StripZeros(ds) ==
    IF Len(ds) > 1 /\ Head(ds) = "0" THEN StripZeros(Tail(ds)) ELSE ds

\* Lexicographic <= on two digit sequences of the same length.
RECURSIVE DigitsLeq(_, _)
DigitsLeq(a, b) ==
    IF a = <<>> THEN TRUE
    ELSE IF DigitValue(Head(a)) < DigitValue(Head(b)) THEN TRUE
    ELSE IF DigitValue(Head(a)) > DigitValue(Head(b)) THEN FALSE
    ELSE DigitsLeq(Tail(a), Tail(b))

\* 2^63 - 1 and 2^63, the largest magnitudes of a 64-bit int, as digits.
MaxInt64Digits ==
    <<"9","2","2","3","3","7","2","0","3","6","8","5","4","7","7","5","8","0","7">>
MinInt64Digits ==
    <<"9","2","2","3","3","7","2","0","3","6","8","5","4","7","7","5","8","0","8">>

\* Whether digits ds (of magnitude) fit a 64-bit int of the given sign.
FitsInt64(ds, negative) ==
    LET m == StripZeros(ds)
        limit == IF negative THEN MinInt64Digits ELSE MaxInt64Digits
    IN  \/ Len(m) < Len(limit)
        \/ Len(m) = Len(limit) /\ DigitsLeq(m, limit)

\* strconv.Atoi: an optional sign, then one or more decimal digits, in the
\* range of int; anything else is an error.
Atoi(s) ==
    LET cs == Bytes(s)
        signed == cs # <<>> /\ Head(cs) \in {"+", "-"}
        negative == cs # <<>> /\ Head(cs) = "-"
        ds == IF signed THEN Tail(cs) ELSE cs
    IN  IF ds = <<>> \/ \E i \in DOMAIN ds : ~IsDigit(ds[i])
            THEN [ok |-> FALSE, val |-> 0]
        ELSE IF ~FitsInt64(ds, negative)
            THEN [ok |-> FALSE, val |-> 0]
        ELSE [ok |-> TRUE,
              val |-> IF negative THEN 0 - DigitsValue(ds) ELSE DigitsValue(ds)]

\* strconv.Itoa
RECURSIVE NatToString(_)
NatToString(n) ==
    IF n < 10 THEN Digits[n + 1]
    ELSE NatToString(n \div 10) \o Digits[(n % 10) + 1]

Itoa(n) == IF n < 0 THEN "-" \o NatToString(0 - n) ELSE NatToString(n)

\* strings.ToLower, on bytes: an upper-case ASCII letter becomes its
\* lower-case one, any other byte stays.
UpperLetters ==
    <<"A","B","C","D","E","F","G","H","I","J","K","L","M",
      "N","O","P","Q","R","S","T","U","V","W","X","Y","Z">>
LowerLetters ==
    <<"a","b","c","d","e","f","g","h","i","j","k","l","m",
      "n","o","p","q","r","s","t","u","v","w","x","y","z">>

LowerOf(c) ==
    IF \E i \in DOMAIN UpperLetters : UpperLetters[i] = c
        THEN LowerLetters[CHOOSE i \in DOMAIN UpperLetters : UpperLetters[i] = c]
        ELSE c

ToLower(cs) == [i \in DOMAIN cs |-> LowerOf(cs[i])]


-----------------------------------------------------------------------------
(* The environment and loadConfig.                                           *)

Nil == "<nil>"

RequiredVars ==
    {"SOURCE_S3_ENDPOINT", "SOURCE_ACCESS_KEY", "SOURCE_SECRET_KEY", "SOURCE_BUCKET",
     "DEST_S3_ENDPOINT", "DEST_ACCESS_KEY", "DEST_SECRET_KEY", "DEST_BUCKET"}

SecretVars ==
    {"SOURCE_ACCESS_KEY", "SOURCE_SECRET_KEY", "DEST_ACCESS_KEY", "DEST_SECRET_KEY"}

OptionalVars ==
    {"DEST_PREFIX", "DRY_RUN", "MAX_DELETE", "RETRIES", "BANDWIDTH_LIMIT", "LOG_LEVEL"}

\* os.Getenv: the value of a variable that is set, "" for one that is not.
Getenv(e, key) == IF key \in DOMAIN e THEN e[key] ELSE ""

getEnvOrDefault(e, key, defaultValue) ==
    IF Getenv(e, key) # "" THEN Getenv(e, key) ELSE defaultValue

\* getEnvIntOrDefault with Atoi's error dropped: what is no integer gives 0.
getEnvIntErrorDropped(e, key, defaultValue) ==
    IF Getenv(e, key) # "" THEN Atoi(Getenv(e, key)).val ELSE defaultValue

getEnvIntOrDefault(e, key, defaultValue) ==
    IF Getenv(e, key) # "" /\ Atoi(Getenv(e, key)).ok
        THEN Atoi(Getenv(e, key)).val
        ELSE defaultValue

DefaultMaxDelete == 1000
DefaultRetries == 3

\* DryRun read as strconv.ParseBool reads a string.
DryRunOfParseBool(e) ==
    getEnvOrDefault(e, "DRY_RUN", "false") \in {"1", "t", "T", "true", "TRUE", "True"}

\* DryRun: getEnvOrDefault("DRY_RUN", "false") == "true"
DryRunOf(e) == getEnvOrDefault(e, "DRY_RUN", "false") = "true"

\* MaxDelete: getEnvIntOrDefault("MAX_DELETE", 1000)
MaxDeleteOf(e) == getEnvIntOrDefault(e, "MAX_DELETE", DefaultMaxDelete)

\* The Config literal of loadConfig.
ConfigOf(e) ==
    LET sourceBucket == getEnvOrDefault(e, "SOURCE_BUCKET", "")
    IN  [SourceEndpoint  |-> getEnvOrDefault(e, "SOURCE_S3_ENDPOINT", ""),
         SourceAccessKey |-> getEnvOrDefault(e, "SOURCE_ACCESS_KEY", ""),
         SourceSecretKey |-> getEnvOrDefault(e, "SOURCE_SECRET_KEY", ""),
         SourceBucket    |-> sourceBucket,
         DestEndpoint    |-> getEnvOrDefault(e, "DEST_S3_ENDPOINT", ""),
         DestAccessKey   |-> getEnvOrDefault(e, "DEST_ACCESS_KEY", ""),
         DestSecretKey   |-> getEnvOrDefault(e, "DEST_SECRET_KEY", ""),
         DestBucket      |-> getEnvOrDefault(e, "DEST_BUCKET", ""),
         DestPrefix      |-> getEnvOrDefault(e, "DEST_PREFIX", sourceBucket),
         DryRun          |-> DryRunOf(e),
         MaxDelete       |-> MaxDeleteOf(e),
         Retries         |-> getEnvIntOrDefault(e, "RETRIES", DefaultRetries),
         BandwidthLimit  |-> getEnvOrDefault(e, "BANDWIDTH_LIMIT", ""),
         LogLevel        |-> getEnvOrDefault(e, "LOG_LEVEL", "info")]

NoConfig == ConfigOf(<<>>)

\* The map with DEST_BUCKET forgotten.
requiredWithoutDestBucket(c) ==
    ( "SOURCE_S3_ENDPOINT" :> c.SourceEndpoint
   @@ "SOURCE_ACCESS_KEY"  :> c.SourceAccessKey
   @@ "SOURCE_SECRET_KEY"  :> c.SourceSecretKey
   @@ "SOURCE_BUCKET"      :> c.SourceBucket
   @@ "DEST_S3_ENDPOINT"   :> c.DestEndpoint
   @@ "DEST_ACCESS_KEY"    :> c.DestAccessKey
   @@ "DEST_SECRET_KEY"    :> c.DestSecretKey )

\* The map with SOURCE_ACCESS_KEY reading the secret key's field.
requiredFieldMixedUp(c) ==
    ( "SOURCE_S3_ENDPOINT" :> c.SourceEndpoint
   @@ "SOURCE_ACCESS_KEY"  :> c.SourceSecretKey
   @@ "SOURCE_SECRET_KEY"  :> c.SourceSecretKey
   @@ "SOURCE_BUCKET"      :> c.SourceBucket
   @@ "DEST_S3_ENDPOINT"   :> c.DestEndpoint
   @@ "DEST_ACCESS_KEY"    :> c.DestAccessKey
   @@ "DEST_SECRET_KEY"    :> c.DestSecretKey
   @@ "DEST_BUCKET"        :> c.DestBucket )

\* validateConfig's map of the required variables to the fields read for them.
required(c) ==
    ( "SOURCE_S3_ENDPOINT" :> c.SourceEndpoint
   @@ "SOURCE_ACCESS_KEY"  :> c.SourceAccessKey
   @@ "SOURCE_SECRET_KEY"  :> c.SourceSecretKey
   @@ "SOURCE_BUCKET"      :> c.SourceBucket
   @@ "DEST_S3_ENDPOINT"   :> c.DestEndpoint
   @@ "DEST_ACCESS_KEY"    :> c.DestAccessKey
   @@ "DEST_SECRET_KEY"    :> c.DestSecretKey
   @@ "DEST_BUCKET"        :> c.DestBucket )

ValidateError(key) == "required environment variable " \o key \o " is not set"

\* validateConfig: ranging over a Go map visits the keys in no fixed order,
\* so the error names any one of the keys whose value is empty. The set of
\* the errors it can return; empty when it returns nil.
validateConfig(c) ==
    {ValidateError(key) : key \in {k \in DOMAIN required(c) : required(c)[k] = ""}}

\* loadConfig's wrapping of validateConfig's error.
LoadError(e) == "configuration validation failed: " \o e

-----------------------------------------------------------------------------
(* The logger (logrus).                                                      *)

\* logrus's levels, from the least to the most verbose.
LevelNames == <<"panic", "fatal", "error", "warn", "info", "debug", "trace">>

LevelRank(l) == CHOOSE i \in DOMAIN LevelNames : LevelNames[i] = l

\* logrus.ParseLevel: the level named by strings.ToLower(lvl), "warning"
\* being "warn"; an error for any other string.
ParseLevel(lvl) ==
    LET l == ToLower(Bytes(lvl))
    IN  CASE l = <<"p", "a", "n", "i", "c">>      -> [ok |-> TRUE, level |-> "panic"]
          [] l = <<"f", "a", "t", "a", "l">>      -> [ok |-> TRUE, level |-> "fatal"]
          [] l = <<"e", "r", "r", "o", "r">>      -> [ok |-> TRUE, level |-> "error"]
          [] l = <<"w", "a", "r", "n">>           -> [ok |-> TRUE, level |-> "warn"]
          [] l = <<"w", "a", "r", "n", "i", "n", "g">> -> [ok |-> TRUE, level |-> "warn"]
          [] l = <<"i", "n", "f", "o">>           -> [ok |-> TRUE, level |-> "info"]
          [] l = <<"d", "e", "b", "u", "g">>      -> [ok |-> TRUE, level |-> "debug"]
          [] l = <<"t", "r", "a", "c", "e">>      -> [ok |-> TRUE, level |-> "trace"]
          [] OTHER                                -> [ok |-> FALSE, level |-> ""]

\* setupLogger: the parsed level, InfoLevel when the string names none.
setupLogger(lvl) ==
    IF ParseLevel(lvl).ok THEN ParseLevel(lvl).level ELSE "info"

\* logger.IsLevelEnabled: a record of level l is written at logger level lv.
IsLevelEnabled(lv, l) == LevelRank(lv) >= LevelRank(l)

\* Entry.Log: the log with the record appended when its level is enabled.
Emit(lg, lv, rec) == IF IsLevelEnabled(lv, rec.level) THEN Append(lg, rec) ELSE lg

\* The first record with the whole Config as a field.
JobStartRecordWholeConfig(c) ==
    [level |-> "info", msg |-> "Starting S3 sync job", fields |-> [config |-> c]]

\* main's first record.
JobStartRecord(c) ==
    [level |-> "info", msg |-> "Starting S3 sync job",
     fields |-> [source_bucket |-> c.SourceBucket, dest_bucket |-> c.DestBucket,
                 dest_prefix |-> c.DestPrefix, dry_run |-> c.DryRun]]

DryRunRecord ==
    [level |-> "info", msg |-> "Running in dry-run mode - no changes will be made",
     fields |-> <<>>]

\* runSync's record before the child process is run.
SyncStartRecord(sourceRemote, destRemote, a) ==
    [level |-> "info", msg |-> "Starting rclone sync",
     fields |-> [source |-> sourceRemote, dest |-> destRemote, args |-> a]]

\* The completion record with success not read off the error.
SyncCompletedRecordAlwaysSuccess(d, e) ==
    [level |-> "info", msg |-> "Sync operation completed",
     fields |-> [duration |-> d, success |-> TRUE]]

\* runSync's record after cmd.Run() returned e.
SyncCompletedRecord(d, e) ==
    [level |-> "info", msg |-> "Sync operation completed",
     fields |-> [duration |-> d, success |-> (e = Nil)]]

\* main's record of runSync's error.
FatalRecord(e) ==
    [level |-> "fatal", msg |-> "Sync operation failed", fields |-> [error |-> e]]

JobDoneRecord ==
    [level |-> "info", msg |-> "S3 sync job completed successfully", fields |-> <<>>]

-----------------------------------------------------------------------------
(* The file system: /tmp/rclone-config and rclone.conf in it, both owned by  *)
(* the user the process runs as (the image's syncuser).                      *)

\* The permissions createRcloneConfig asks for: 0700 and 0600.
Perm0700 == 448
Perm0600 == 384

\* The directory the image ships: mkdir -p under the build's umask, 0755.
ImageDirMode == 493

ConfigDir == "/tmp/rclone-config"

\* filepath.Join(configDir, "rclone.conf")
ConfigPath == ConfigDir \o "/" \o "rclone.conf"

NoDir == [exists |-> FALSE, mode |-> 0]
NoFile == [exists |-> FALSE, mode |-> 0, content |-> <<>>]

\* perm &^ mask, bit by bit.
RECURSIVE AndNot(_, _)
AndNot(perm, mask) ==
    IF perm = 0 THEN 0
    ELSE (IF perm % 2 = 1 /\ mask % 2 = 0 THEN 1 ELSE 0)
         + 2 * AndNot(perm \div 2, mask \div 2)

\* The owner's write and search bits of a mode (0200, 0100).
OwnerCanWrite(mode) == (mode \div 128) % 2 = 1
OwnerCanSearch(mode) == (mode \div 64) % 2 = 1

\* os.MkdirAll(configDir, perm): nothing to do for a directory that exists;
\* otherwise it is made with perm less the umask, unless /tmp cannot be
\* written.
MkdirAll(f, perm, um) ==
    IF f.dir.exists THEN [fs |-> f, err |-> Nil]
    ELSE IF f.readOnly
        THEN [fs |-> f, err |-> "mkdir " \o ConfigDir \o ": read-only file system"]
    ELSE [fs |-> [f EXCEPT !.dir = [exists |-> TRUE, mode |-> AndNot(perm, um)]],
          err |-> Nil]

\* os.WriteFile(configFile, data, perm): open with O_WRONLY|O_CREATE|O_TRUNC.
\* A file that exists is truncated and written and keeps its mode; a file
\* that does not is created with perm less the umask.
WriteFile(f, data, perm, um) ==
    IF f.readOnly
        THEN [fs |-> f, err |-> "open " \o ConfigPath \o ": read-only file system"]
    ELSE IF ~OwnerCanSearch(f.dir.mode)
        THEN [fs |-> f, err |-> "open " \o ConfigPath \o ": permission denied"]
    ELSE IF f.file.exists
        THEN IF OwnerCanWrite(f.file.mode)
                THEN [fs |-> [f EXCEPT !.file.content = data], err |-> Nil]
                ELSE [fs |-> f, err |-> "open " \o ConfigPath \o ": permission denied"]
    ELSE IF OwnerCanWrite(f.dir.mode)
        THEN [fs |-> [f EXCEPT !.file = [exists |-> TRUE, mode |-> AndNot(perm, um),
                                        content |-> data]],
              err |-> Nil]
    ELSE [fs |-> f, err |-> "open " \o ConfigPath \o ": permission denied"]

\* os.Remove(configFile)
Remove(f) ==
    IF ~f.file.exists
        THEN [fs |-> f, err |-> "remove " \o ConfigPath \o ": no such file or directory"]
    ELSE IF f.readOnly
        THEN [fs |-> f, err |-> "remove " \o ConfigPath \o ": read-only file system"]
    ELSE IF ~(OwnerCanWrite(f.dir.mode) /\ OwnerCanSearch(f.dir.mode))
        THEN [fs |-> f, err |-> "remove " \o ConfigPath \o ": permission denied"]
    ELSE [fs |-> [f EXCEPT !.file = NoFile], err |-> Nil]

\* The configContent of createRcloneConfig, line by line.
ConfigContent(c) ==
    << "[source]",
       "type = s3",
       "provider = Other",
       "access_key_id = " \o c.SourceAccessKey,
       "secret_access_key = " \o c.SourceSecretKey,
       "endpoint = " \o c.SourceEndpoint,
       "acl = private",
       "",
       "[dest]",
       "type = s3",
       "provider = Other",
       "access_key_id = " \o c.DestAccessKey,
       "secret_access_key = " \o c.DestSecretKey,
       "endpoint = " \o c.DestEndpoint,
       "acl = private" >>

\* createRcloneConfig: the file system it leaves, the path and the error.
createRcloneConfig(c, f, um) ==
    LET made == MkdirAll(f, Perm0700, um)
        written == WriteFile(made.fs, ConfigContent(c), Perm0600, um)
    IN  IF made.err # Nil
            THEN [fs |-> made.fs, path |-> "",
                  err |-> "failed to create rclone config directory: " \o made.err]
        ELSE IF written.err # Nil
            THEN [fs |-> written.fs, path |-> "",
                  err |-> "failed to write rclone config: " \o written.err]
        ELSE [fs |-> written.fs, path |-> ConfigPath, err |-> Nil]

\* The removal done on the success path alone.
DeferredRemoveOnSuccessOnly(f, e) == IF e = Nil THEN Remove(f).fs ELSE f

\* runSync's deferred os.Remove(configFile), run as runSync returns e; its
\* own error is dropped.
DeferredRemove(f, e) == Remove(f).fs

-----------------------------------------------------------------------------
(* runSync's argument list and the child process.                            *)

SourceRemote(c) == "source:" \o c.SourceBucket
DestRemote(c) == "dest:" \o c.DestBucket \o "/" \o c.DestPrefix

BaseArgs(c, path) ==
    << "sync", SourceRemote(c), DestRemote(c),
       "--config", path,
       "--delete-during",
       "--checksum",
       "--retries", Itoa(c.Retries),
       "--stats", "1m",
       "--stats-log-level", "INFO",
       "--progress" >>

DryRunArgs(c) == IF c.DryRun THEN << "--dry-run" >> ELSE << >>

MaxDeleteArgs(c) ==
    IF c.MaxDelete > 0 THEN << "--max-delete", Itoa(c.MaxDelete) >> ELSE << >>

BandwidthArgs(c) ==
    IF c.BandwidthLimit # "" THEN << "--bwlimit", c.BandwidthLimit >> ELSE << >>

\* The args of runSync, as handed to exec.Command.
BuildArgs(c, path) ==
    BaseArgs(c, path) \o DryRunArgs(c) \o MaxDeleteArgs(c) \o BandwidthArgs(c)

\* cmd.Run() taken to fail only when the child does not start.
RunErrorIgnoringStatus(status, code) ==
    IF status = "startfail"
        THEN "exec: \"rclone\": executable file not found in $PATH"
        ELSE Nil

\* What cmd.Run() returns: nil for a child that started and exited with
\* status zero, an *exec.ExitError for any other status, the start's error
\* for a child that did not start.
RunError(status, code) ==
    IF status = "startfail"
        THEN "exec: \"rclone\": executable file not found in $PATH"
    ELSE IF code = 0 THEN Nil
    ELSE "exit status " \o Itoa(code)

\* runSync's return value after cmd.Run() returned e.
SyncError(e) == IF e # Nil THEN "rclone sync failed: " \o e ELSE Nil

-----------------------------------------------------------------------------
(* The runs the model starts from.                                           *)

Unset == "<unset>"

\* The environment that gives each variable of `assign` its value, the ones
\* assigned Unset being left out of the environment.
EnvOf(assign) ==
    [k \in {v \in DOMAIN assign : assign[v] # Unset} |-> assign[k]]

SecretValues == {"", "s1", "s2"}

\* A deployment with every required variable set and no optional one.
BaseAssign ==
    ( "SOURCE_S3_ENDPOINT" :> "https://src.example"
   @@ "SOURCE_ACCESS_KEY"  :> "s1"
   @@ "SOURCE_SECRET_KEY"  :> "s1"
   @@ "SOURCE_BUCKET"      :> "media"
   @@ "DEST_S3_ENDPOINT"   :> "https://dst.example"
   @@ "DEST_ACCESS_KEY"    :> "s1"
   @@ "DEST_SECRET_KEY"    :> "s1"
   @@ "DEST_BUCKET"        :> "backup"
   @@ [k \in OptionalVars |-> Unset] )

\* The file system of a fresh container of the image.
ImageFs ==
    [dir |-> [exists |-> TRUE, mode |-> ImageDirMode], file |-> NoFile,
     readOnly |-> FALSE]

\* Every way of leaving each required variable unset, empty or set (umask 022).
ValidationRuns ==
    { [env |-> EnvOf([k \in DOMAIN BaseAssign |->
                        IF k \in RequiredVars
                            THEN (IF ch[k] = "set" THEN BaseAssign[k]
                                  ELSE IF ch[k] = "empty" THEN "" ELSE Unset)
                            ELSE BaseAssign[k]]),
       fs |-> ImageFs, umask |-> 18, runsLeft |-> 0]
      : ch \in [RequiredVars -> {"unset", "empty", "set"}] }

DryRunValues == {Unset, "", "true", "false", "TRUE", "True", "1"}
LogLevelValues ==
    {Unset, "", "trace", "debug", "info", "Warn", "warning", "error", "fatal",
     "panic", "verbose"}
PrefixValues == {Unset, "", "mirror"}
MaxDeleteValues ==
    {Unset, "", "0", "-5", "50", "+7", "007", "abc", "5x", "-", "99999999999999999999"}
RetriesValues == {Unset, "5", "abc"}
BandwidthValues == {Unset, "", "50M"}

\* The required variables set; dry-run, log level and prefix vary.
LoggingRuns ==
    { [env |-> EnvOf( "DRY_RUN" :> d @@ "LOG_LEVEL" :> l @@ "DEST_PREFIX" :> p
                      @@ BaseAssign ),
       fs |-> ImageFs, umask |-> 18, runsLeft |-> 0]
      : d \in DryRunValues, l \in LogLevelValues, p \in PrefixValues }

\* The required variables set; the variables behind the argument list vary.
ArgumentRuns ==
    { [env |-> EnvOf( "DRY_RUN" :> d @@ "MAX_DELETE" :> m @@ "RETRIES" :> r
                      @@ "BANDWIDTH_LIMIT" :> b @@ BaseAssign ),
       fs |-> ImageFs, umask |-> 18, runsLeft |-> 0]
      : d \in {Unset, "true"}, m \in MaxDeleteValues, r \in RetriesValues,
        b \in BandwidthValues }

\* The modes of a credential file found at the path: 0600, 0644, 0400.
FoundFileModes == {384, 420, 256}

\* The file systems a run can find: the directory missing, as the image
\* ships it, or as an earlier run made it; a credential file in it or none;
\* the volume read-only or not.
FileSystems ==
    { [dir |-> d, file |-> f, readOnly |-> ro]
      : d \in {NoDir} \cup {[exists |-> TRUE, mode |-> m] : m \in {ImageDirMode, Perm0700}},
        f \in {NoFile} \cup {[exists |-> TRUE, mode |-> m, content |-> << "stale" >>]
                             : m \in FoundFileModes},
        ro \in BOOLEAN }

Umasks == {18, 63}  \* 022, 077

\* The required variables set; the file system, the umask and the level vary.
FileSystemRuns ==
    { [env |-> EnvOf("LOG_LEVEL" :> l @@ BaseAssign), fs |-> f, umask |-> um,
       runsLeft |-> 0]
      : l \in {Unset, "error", "panic"},
        f \in {x \in FileSystems : x.file.exists => x.dir.exists},
        um \in Umasks }

\* A deployment that is run again, its secrets changed between the runs.
RepeatedRuns ==
    { [env |-> EnvOf("DRY_RUN" :> d @@ BaseAssign), fs |-> f, umask |-> 18,
       runsLeft |-> MaxRuns - 1]
      : d \in {Unset, "true"},
        f \in {ImageFs, [ImageFs EXCEPT !.readOnly = TRUE]} }

Runs == ValidationRuns \cup LoggingRuns \cup ArgumentRuns \cup FileSystemRuns
        \cup RepeatedRuns

NoPrev ==
    [completed |-> FALSE, env |-> <<>>, fs0 |-> ImageFs, child |-> "none",
     childCode |-> 0, logs |-> <<>>, args |-> <<>>, exitCode |-> 0]

\* The state of a process that has just started.
Started ==
    /\ pc = "main"
    /\ config = NoConfig
    /\ err = Nil
    /\ level = "info"
    /\ logs = <<>>
    /\ stderr = <<>>
    /\ configFile = ""
    /\ args = <<>>
    /\ child = "none"
    /\ childCode = 0
    /\ childStarts = 0
    /\ duration = 0
    /\ exitCode = -1

Init ==
    /\ \E r \in Runs :
        /\ env = r.env
        /\ fs = r.fs
        /\ fs0 = r.fs
        /\ umask = r.umask
        /\ runsLeft = r.runsLeft
    /\ prev = NoPrev
    /\ Started

-----------------------------------------------------------------------------
(* main, step by step.                                                       *)

\* main: config, err := loadConfig()
LoadConfig ==
    /\ pc = "main"
    /\ LET c == ConfigOf(env)
       IN  IF validateConfig(c) = {}
               THEN /\ config' = c
                    /\ err' = Nil
                    /\ pc' = "setupLogger"
               ELSE /\ \E e \in validateConfig(c) : err' = LoadError(e)
                    /\ config' = NoConfig
                    /\ pc' = "configError"
    /\ UNCHANGED <<env, umask, fs, fs0, level, logs, stderr, configFile, args, child,
                   childCode, childStarts, duration, exitCode, runsLeft, prev>>

\* main: if err != nil { fmt.Fprintf(os.Stderr, ...); os.Exit(1) }
ConfigError ==
    /\ pc = "configError"
    /\ stderr' = Append(stderr, "Configuration error: " \o err \o "\n")
    /\ exitCode' = 1
    /\ pc' = "exited"
    /\ UNCHANGED <<env, umask, fs, fs0, config, err, level, logs, configFile, args,
                   child, childCode, childStarts, duration, runsLeft, prev>>

\* main: logger := setupLogger(config.LogLevel)
SetupLogger ==
    /\ pc = "setupLogger"
    /\ level' = setupLogger(config.LogLevel)
    /\ pc' = "logJob"
    /\ UNCHANGED <<env, umask, fs, fs0, config, err, logs, stderr, configFile, args,
                   child, childCode, childStarts, duration, exitCode, runsLeft, prev>>

\* main: logger.WithFields(...).Info("Starting S3 sync job")
LogJobStart ==
    /\ pc = "logJob"
    /\ logs' = Emit(logs, level, JobStartRecord(config))
    /\ pc' = "runSync"
    /\ UNCHANGED <<env, umask, fs, fs0, config, err, level, stderr, configFile, args,
                   child, childCode, childStarts, duration, exitCode, runsLeft, prev>>

\* runSync: configFile, err := createRcloneConfig(config); on an error it
\* returns to main; otherwise the removal of the file is deferred.
CreateRcloneConfig ==
    /\ pc = "runSync"
    /\ LET r == createRcloneConfig(config, fs, umask)
       IN  /\ fs' = r.fs
           /\ configFile' = r.path
           /\ err' = IF r.err # Nil
                        THEN "failed to create rclone config: " \o r.err
                        ELSE Nil
           /\ pc' = IF r.err # Nil THEN "fatal" ELSE "buildArgs"
    /\ UNCHANGED <<env, umask, fs0, config, level, logs, stderr, args, child,
                   childCode, childStarts, duration, exitCode, runsLeft, prev>>

\* runSync: the remotes, the args, the dry-run notice and the start record.
PrepareSync ==
    /\ pc = "buildArgs"
    /\ args' = BuildArgs(config, configFile)
    /\ logs' = Emit(IF config.DryRun THEN Emit(logs, level, DryRunRecord) ELSE logs,
                    level,
                    SyncStartRecord(SourceRemote(config), DestRemote(config),
                                    BuildArgs(config, configFile)))
    /\ pc' = "startChild"
    /\ UNCHANGED <<env, umask, fs, fs0, config, err, level, stderr, configFile, child,
                   childCode, childStarts, duration, exitCode, runsLeft, prev>>

\* runSync: cmd.Run() starts the child process, or fails to.
StartChild ==
    /\ pc = "startChild"
    /\ \E started \in BOOLEAN, d \in Durations :
        IF started
            THEN /\ child' = "running"
                 /\ childStarts' = childStarts + 1
                 /\ pc' = "waitChild"
                 /\ UNCHANGED <<err, duration>>
            ELSE /\ child' = "startfail"
                 /\ err' = RunError("startfail", 0)
                 /\ duration' = d
                 /\ pc' = "logCompleted"
                 /\ UNCHANGED childStarts
    /\ UNCHANGED <<env, umask, fs, fs0, config, level, logs, stderr, configFile, args,
                   childCode, exitCode, runsLeft, prev>>

\* runSync: cmd.Run() returns as the child process exits.
ChildExit ==
    /\ pc = "waitChild"
    /\ \E code \in ChildExitCodes, d \in Durations :
        /\ child' = "exited"
        /\ childCode' = code
        /\ err' = RunError("exited", code)
        /\ duration' = d
    /\ pc' = "logCompleted"
    /\ UNCHANGED <<env, umask, fs, fs0, config, level, logs, stderr, configFile, args,
                   childStarts, exitCode, runsLeft, prev>>

\* runSync: logger.WithFields(...).Info("Sync operation completed")
LogCompleted ==
    /\ pc = "logCompleted"
    /\ logs' = Emit(logs, level, SyncCompletedRecord(duration, err))
    /\ pc' = "return"
    /\ UNCHANGED <<env, umask, fs, fs0, config, err, level, stderr, configFile, args,
                   child, childCode, childStarts, duration, exitCode, runsLeft, prev>>

\* runSync running the engine once more after a failure.
RunSyncReturnRetrying ==
    /\ pc = "return"
    /\ IF err # Nil /\ childStarts < 2
           THEN /\ pc' = "startChild"
                /\ UNCHANGED <<fs, err>>
           ELSE /\ fs' = Remove(fs).fs
                /\ err' = IF err # Nil THEN "rclone sync failed: " \o err ELSE Nil
                /\ pc' = IF err # Nil THEN "fatal" ELSE "success"
    /\ UNCHANGED <<env, umask, fs0, config, level, logs, stderr, configFile, args,
                   child, childCode, childStarts, duration, exitCode, runsLeft, prev>>

\* runSync returns its result to main, the deferred os.Remove running first.
RunSyncReturn ==
    /\ pc = "return"
    /\ fs' = DeferredRemove(fs, err)
    /\ err' = SyncError(err)
    /\ pc' = IF err # Nil THEN "fatal" ELSE "success"
    /\ UNCHANGED <<env, umask, fs0, config, level, logs, stderr, configFile, args,
                   child, childCode, childStarts, duration, exitCode, runsLeft, prev>>

\* main: logger.WithError(err).Fatal("Sync operation failed"): the record,
\* then logger.Exit(1).
Fatal ==
    /\ pc = "fatal"
    /\ logs' = Emit(logs, level, FatalRecord(err))
    /\ exitCode' = 1
    /\ pc' = "exited"
    /\ UNCHANGED <<env, umask, fs, fs0, config, err, level, stderr, configFile, args,
                   child, childCode, childStarts, duration, runsLeft, prev>>

\* main: logger.Info("S3 sync job completed successfully"), and main returns.
Success ==
    /\ pc = "success"
    /\ logs' = Emit(logs, level, JobDoneRecord)
    /\ exitCode' = 0
    /\ pc' = "exited"
    /\ UNCHANGED <<env, umask, fs, fs0, config, err, level, stderr, configFile, args,
                   child, childCode, childStarts, duration, runsLeft, prev>>

\* The platform kills the process (SIGKILL): nothing deferred runs.
Kill ==
    /\ pc \notin {"exited", "killed"}
    /\ pc' = "killed"
    /\ exitCode' = 137
    /\ UNCHANGED <<env, umask, fs, fs0, config, err, level, logs, stderr, configFile,
                   args, child, childCode, childStarts, duration, runsLeft, prev>>

\* What a run that has ended showed: kept for a run that exited by itself.
Observed ==
    IF pc = "exited"
        THEN [completed |-> TRUE, env |-> env, fs0 |-> fs0, child |-> child,
              childCode |-> childCode, logs |-> logs, args |-> args,
              exitCode |-> exitCode]
        ELSE NoPrev

\* The schedule starts the job again on the file system the last run left,
\* one of the secrets of the deployment having been changed or not.
Restart ==
    /\ pc \in {"exited", "killed"}
    /\ runsLeft > 0
    /\ runsLeft' = runsLeft - 1
    /\ prev' = Observed
    /\ \E k \in SecretVars \cap DOMAIN env, v \in SecretValues :
        env' = [env EXCEPT ![k] = v]
    /\ fs0' = fs
    /\ pc' = "main"
    /\ config' = NoConfig
    /\ err' = Nil
    /\ level' = "info"
    /\ logs' = <<>>
    /\ stderr' = <<>>
    /\ configFile' = ""
    /\ args' = <<>>
    /\ child' = "none"
    /\ childCode' = 0
    /\ childStarts' = 0
    /\ duration' = 0
    /\ exitCode' = -1
    /\ UNCHANGED <<umask, fs>>

Next ==
    \/ LoadConfig
    \/ ConfigError
    \/ SetupLogger
    \/ LogJobStart
    \/ CreateRcloneConfig
    \/ PrepareSync
    \/ StartChild
    \/ ChildExit
    \/ LogCompleted
    \/ RunSyncReturn
    \/ Fatal
    \/ Success
    \/ Kill
    \/ Restart

Spec == Init /\ [][Next]_vars

-----------------------------------------------------------------------------
(* What the claims speak of.                                                 *)

\* The required variables a run's environment leaves unset or empty.
MissingRequired(e) == {k \in RequiredVars : k \notin DOMAIN e \/ e[k] = ""}

\* The raw value of a variable, Unset for one that is not set.
Raw(e, key) == IF key \in DOMAIN e THEN e[key] ELSE Unset

\* Flag `flag` stands in `a` with `value` right behind it.
HasFlagValue(a, flag, value) ==
    \E i \in 1..(Len(a) - 1) : a[i] = flag /\ a[i + 1] = value

\* The places of the records with message m in a log.
Places(lg, m) == {i \in DOMAIN lg : lg[i].msg = m}

\* The run got as far as invoking the engine.
Invoked == child # "none"

\* The engine has ended, or never started.
ChildEnded == child \in {"exited", "startfail"}

-----------------------------------------------------------------------------
\* C1: in a run in which createRcloneConfig succeeded and that was not
\* killed, the credential file is gone once runSync has returned, and so
\* when the process exits: after a child that exited zero, one that exited
\* non-zero and one that did not start (main then calling logger.Fatal).
C1_FileRemovedOnEveryPath ==
    (configFile # "" /\ pc \in {"fatal", "success", "exited"}) => ~fs.file.exists

\* A run whose child did not start has exited with code 1, the file removed.
C1_Witness ==
    /\ pc = "exited"
    /\ configFile # ""
    /\ child = "startfail"
    /\ exitCode = 1
    /\ ~fs.file.exists

\* C2: with a required variable unset or empty the process exits non-zero
\* and, in no state of the run, has it touched the file system, built an
\* argument list or started the engine.
C2_NoSideEffectBeforeConfigError ==
    MissingRequired(env) # {} =>
        /\ fs = fs0
        /\ configFile = ""
        /\ args = <<>>
        /\ child = "none"
        /\ childStarts = 0
        /\ pc \in {"main", "configError", "exited", "killed"}
        /\ (pc = "exited" => exitCode = 1)

\* A run with a required variable missing has exited.
C2_Witness ==
    /\ MissingRequired(env) # {}
    /\ pc = "exited"
    /\ exitCode = 1
    /\ stderr # <<>>

\* C3: a run that exits by itself exits with 0 or 1, and with 0 exactly when
\* the configuration loaded, the credential file was written and the child
\* process started and exited with status zero.
C3_ExitCode ==
    pc = "exited" =>
        /\ exitCode \in {0, 1}
        /\ exitCode = 0 <=>
            /\ MissingRequired(env) = {}
            /\ configFile # ""
            /\ childStarts = 1
            /\ child = "exited"
            /\ childCode = 0

\* A run whose child exited non-zero has exited with code 1.
C3_Witness ==
    /\ pc = "exited"
    /\ child = "exited"
    /\ childCode # 0
    /\ exitCode = 1

-----------------------------------------------------------------------------
(* C4: two runs of one deployment that differ in the secrets alone.          *)

\* Two environments that agree on every variable but the four secrets.
LowEqual(e1, e2) ==
    \A k \in (DOMAIN e1 \cup DOMAIN e2) \ SecretVars :
        k \in DOMAIN e1 /\ k \in DOMAIN e2 /\ e1[k] = e2[k]

\* All four secrets are set and non-empty.
SecretsPresent(e) == \A k \in SecretVars : k \in DOMAIN e /\ e[k] # ""

\* A log with the duration fields taken out of its records.
StripDuration(lg) ==
    [i \in DOMAIN lg |->
        [lg[i] EXCEPT !.fields =
            [f \in (DOMAIN lg[i].fields) \ {"duration"} |-> lg[i].fields[f]]]]

\* Where both runs invoked the engine, it behaved the same for both.
SameEngine == child = "none" \/ prev.child = "none"
              \/ (prev.child = child /\ prev.childCode = childCode)

\* This run and the one before it both exited by themselves, found the same
\* file system, and differ in their environments by secrets alone.
ComparableRuns ==
    /\ pc = "exited"
    /\ prev.completed
    /\ LowEqual(prev.env, env)
    /\ prev.fs0 = fs0
    /\ SameEngine

SameLogsAndArgs ==
    /\ StripDuration(prev.logs) = StripDuration(logs)
    /\ prev.args = args

\* The lines of the credential file that hold the secrets of environment e.
SecretLines(e) ==
    { "access_key_id = " \o Getenv(e, "SOURCE_ACCESS_KEY"),
      "secret_access_key = " \o Getenv(e, "SOURCE_SECRET_KEY"),
      "access_key_id = " \o Getenv(e, "DEST_ACCESS_KEY"),
      "secret_access_key = " \o Getenv(e, "DEST_SECRET_KEY") }

\* C4 as stated: any two runs whose environments differ in the four secret
\* values alone emit the same log records (durations apart) and hand the
\* engine the same argument list.
C4_Original == ComparableRuns => SameLogsAndArgs

\* C4, amended: two runs whose environments differ in the four secret values
\* alone, all four non-empty in both, emit the same log records (durations
\* apart) and hand the engine the same argument list; the credential file a
\* run has written holds that run's secrets.
C4_SecretsDoNotReachLogsOrArgs ==
    /\ (ComparableRuns /\ SecretsPresent(prev.env) /\ SecretsPresent(env))
            => SameLogsAndArgs
    /\ (configFile # "" /\ fs.file.exists) => SecretLines(env) \subseteq Range(fs.file.content)

\* Two completed runs with different secrets, both having invoked the engine.
C4_Witness ==
    /\ ComparableRuns
    /\ SecretsPresent(prev.env)
    /\ SecretsPresent(env)
    /\ prev.env # env
    /\ child = "exited"
    /\ prev.child = "exited"
    /\ Len(logs) > 2
    /\ args # <<>>

-----------------------------------------------------------------------------
\* C5: with some required variables unset or empty, loadConfig fails and its
\* error names one of exactly those variables; with all eight non-empty it
\* succeeds whatever the optional variables hold.
C5_ErrorNamesMissingVariable ==
    /\ pc = "configError" =>
        \E k \in MissingRequired(env) :
            err = "configuration validation failed: required environment variable "
                  \o k \o " is not set"
    /\ (MissingRequired(env) # {} /\ pc # "main") =>
        (pc \in {"configError", "exited", "killed"} /\ config = NoConfig)
    /\ (MissingRequired(env) = {} /\ pc \notin {"main", "killed"}) =>
        (pc # "configError" /\ stderr = <<>> /\ config # NoConfig)

\* loadConfig has failed in a run that leaves some variables out and sets others.
C5_Witness ==
    /\ pc = "configError"
    /\ Cardinality(MissingRequired(env)) >= 2
    /\ RequiredVars \ MissingRequired(env) # {}

-----------------------------------------------------------------------------
\* C6: whenever createRcloneConfig has returned successfully, the credential
\* file has mode 0600, whatever file system the run found, a file left at the
\* path with another mode included.
C6_FileMode0600 ==
    (pc = "buildArgs" /\ configFile # "") => (fs.file.exists /\ fs.file.mode = 384)

-----------------------------------------------------------------------------
(* C7: the max-delete ceiling.                                               *)

\* What MAX_DELETE resolves to, value by value: 1000 for unset, empty and
\* what is no integer, the integer otherwise.
ExpectedCeiling(raw) ==
    CASE raw = Unset  -> 1000
      [] raw = ""     -> 1000
      [] raw = "0"    -> 0
      [] raw = "-5"   -> 0 - 5
      [] raw = "50"   -> 50
      [] raw = "+7"   -> 7
      [] raw = "007"  -> 7
      [] raw = "abc"  -> 1000
      [] raw = "5x"   -> 1000
      [] raw = "-"    -> 1000
      [] raw = "99999999999999999999" -> 1000

ExpectedDecimal(n) ==
    CASE n = 1000 -> "1000"
      [] n = 50   -> "50"
      [] n = 7    -> "7"
      [] OTHER    -> "none"

\* C7: MAX_DELETE resolves to 1000 when unset, empty or no integer, to the
\* integer otherwise; the argument list holds --max-delete, the decimal
\* ceiling right behind it, exactly when the ceiling is positive.
C7_MaxDelete ==
    LET want == ExpectedCeiling(Raw(env, "MAX_DELETE"))
    IN  /\ config # NoConfig => config.MaxDelete = want
        /\ args # <<>> =>
            /\ want > 0 => HasFlagValue(args, "--max-delete", ExpectedDecimal(want))
            /\ want > 0 => Cardinality({i \in DOMAIN args : args[i] = "--max-delete"}) = 1
            /\ want <= 0 => "--max-delete" \notin Range(args)

\* A negative MAX_DELETE: the arguments are built and hold no --max-delete.
C7_Witness ==
    /\ Raw(env, "MAX_DELETE") = "-5"
    /\ args # <<>>
    /\ config.MaxDelete < 0
    /\ "--max-delete" \notin Range(args)

-----------------------------------------------------------------------------
\* C9: the argument list holds --dry-run exactly when DRY_RUN is the string
\* "true"; unset, empty, "false", "TRUE", "True", "1" give none.
C9_DryRunExactMatch ==
    /\ config # NoConfig => (config.DryRun <=> Raw(env, "DRY_RUN") = "true")
    /\ args # <<>> => ("--dry-run" \in Range(args) <=> Raw(env, "DRY_RUN") = "true")

\* DRY_RUN is "TRUE": the arguments are built and hold no --dry-run.
C9_Witness ==
    /\ Raw(env, "DRY_RUN") = "TRUE"
    /\ args # <<>>
    /\ "--dry-run" \notin Range(args)

-----------------------------------------------------------------------------
(* C8: the records around the invocation of the engine.                      *)

\* The values of LOG_LEVEL at which a logger writes its info records: the
\* levels info, debug and trace, and what falls back to info (unset, empty,
\* no level's name); "Warn", "warning", "error", "fatal" and "panic" name
\* less verbose levels.
InfoShown(raw) == raw \in {Unset, "", "info", "debug", "trace", "verbose"}

StartPlaces == Places(logs, "Starting rclone sync")
CompletedPlaces == Places(logs, "Sync operation completed")

\* The start record is there from before the child process is started, the
\* completion record from after it ended, its success field true exactly
\* for a child that exited with status zero.
RecordsAroundInvocation ==
    /\ Invoked =>
        \E i \in StartPlaces :
            /\ logs[i].fields.source = "source:" \o Getenv(env, "SOURCE_BUCKET")
            /\ logs[i].fields.dest = args[3]
            /\ logs[i].fields.args = args
    /\ CompletedPlaces # {} => ChildEnded
    /\ (Invoked /\ pc \in {"return", "fatal", "success", "exited"}) =>
        \E j \in CompletedPlaces :
            /\ logs[j].fields.success = (child = "exited" /\ childCode = 0)
            /\ logs[j].fields.duration = duration
            /\ \A i \in StartPlaces : i < j

\* C8 as stated: the two records are emitted for every value of LOG_LEVEL.
C8_Original == RecordsAroundInvocation

\* C8, amended: in every run that reaches the invocation, for every value of
\* LOG_LEVEL at which info records are written (unset, empty, unrecognised,
\* info or more verbose), the start record is emitted before the child
\* process is started and the completion record after it ended, success
\* being true exactly for exit status zero; at a less verbose level (warn,
\* error, fatal, panic) neither record is emitted.
C8_RecordsWhenInfoShown ==
    /\ InfoShown(Raw(env, "LOG_LEVEL")) => RecordsAroundInvocation
    /\ ~InfoShown(Raw(env, "LOG_LEVEL")) => (StartPlaces = {} /\ CompletedPlaces = {})

\* At the default level, a child that failed to start: success is false.
C8_Witness ==
    /\ InfoShown(Raw(env, "LOG_LEVEL"))
    /\ pc = "exited"
    /\ child = "startfail"
    /\ \E j \in CompletedPlaces : logs[j].fields.success = FALSE
    /\ StartPlaces # {}

-----------------------------------------------------------------------------
(* C10: the lifecycle of a run.                                              *)

\* The places of main in the order of the lifecycle: Idle (main),
\* ConfigLoaded (setupLogger, logJob, runSync), CredentialFileWritten
\* (buildArgs, startChild), EngineRunning (waitChild), Succeeded or Failed
\* (logCompleted, return), CredentialFileRemoved (fatal, success), exit.
PcOrder ==
    << "main", "configError", "setupLogger", "logJob", "runSync", "buildArgs",
       "startChild", "waitChild", "logCompleted", "return", "fatal", "success",
       "exited", "killed" >>

PcRank(p) == CHOOSE i \in DOMAIN PcOrder : PcOrder[i] = p

\* createRcloneConfig has failed in this run.
CreateFailed == config # NoConfig /\ configFile = "" /\ pc \in {"fatal", "exited"}

C10_State ==
    /\ childStarts <= 1
    /\ Invoked =>
        /\ MissingRequired(env) = {}
        /\ config = ConfigOf(env)
        /\ configFile = "/tmp/rclone-config/rclone.conf"
    /\ child = "running" =>
        (childStarts = 1 /\ fs.file.exists /\ fs.file.content = ConfigContent(config))
    /\ CreateFailed =>
        (child = "none" /\ childStarts = 0 /\ args = <<>> /\ (pc = "exited" => exitCode = 1))

\* A step of a run moves main forward; only a new run starts over.
C10_Step ==
    \/ PcRank(pc') > PcRank(pc)
    \/ (pc \in {"exited", "killed"} /\ pc' = "main" /\ runsLeft' = runsLeft - 1)

\* C10: a run goes through the stages of the lifecycle in order and through
\* none twice; the engine is started at most once, and only after the
\* configuration was validated and the credential file written; when the
\* directory or the file cannot be made, no engine is started and the
\* process exits non-zero.
C10_LinearLifecycle == [](C10_State) /\ [][C10_Step]_vars

\* A run in which the credential file could not be written has exited.
C10_Witness ==
    /\ CreateFailed
    /\ pc = "exited"
    /\ exitCode = 1
    /\ childStarts = 0

=============================================================================
